---- MODULE Spec2Model ----
(***************************************************************************)
(* SecureShield AI: threat detector, intelligence collector, incident      *)
(* response orchestrator and honeypot manager, as state machines.          *)
(*                                                                         *)
(* Texts (event names, user agents, pattern tags) are sequences of words;  *)
(* Python's `needle in text` is "needle is one of the words".  JSON values *)
(* are records [t, v] carrying their Python type.  The float produced by   *)
(* Python's true division is kept exactly, as a fraction [num, den].       *)
(***************************************************************************)
EXTENDS Integers, Sequences, FiniteSets, TLC

VARIABLES
    pattern_analysis,          \* argument of _assess_threat_level
    ai_analysis,               \* argument of _assess_threat_level
    threat_assessment,         \* its result, NoResult before the call
    attacker_profiles_table,   \* the DynamoDB table of attacker profiles, by source_ip
    upsert,                    \* the running _update_attacker_profile calls
    event,                     \* the CloudTrail event being processed
    detector,                  \* "idle", or how lambda_handler ended: "ok" / "raised"
    bus,                       \* events waiting for each consumer Lambda
    calls                      \* outbound calls made for the current event, in order

assessVars == <<pattern_analysis, ai_analysis, threat_assessment>>
profileVars == <<attacker_profiles_table, upsert>>
pipeVars == <<event, detector, bus, calls>>

vars == <<pattern_analysis, ai_analysis, threat_assessment,
          attacker_profiles_table, upsert,
          event, detector, bus, calls>>

NoEvent == [exists |-> FALSE]
EmptyBus == [incident_response |-> <<>>, intel_collector |-> <<>>,
             honeypot_manager |-> <<>>]

\* no event has been handed to the detector
PipelineIdle ==
    /\ event = NoEvent
    /\ detector = "idle"
    /\ bus = EmptyBus
    /\ calls = <<>>

----------------------------------------------------------------------------
(* Bounds of the model *)

MaxPatternScore == 17
MaxAiScore == 11
MaxUpserts == 3
MaxListLen == 2

----------------------------------------------------------------------------
(* Python / JSON values *)

Num(n) == [t |-> "num", v |-> n]
Str    == [t |-> "str", v |-> 0]
Null   == [t |-> "null", v |-> 0]

\* dict.get(key, default) on an optional entry: <<>> is "key absent"
Get(entry, default) == IF entry = <<>> THEN default ELSE entry[1]

Range(s) == {s[i] : i \in DOMAIN s}

\* Python `word in text` for a text kept as its sequence of words
Contains(text, word) == word \in Range(text)

Min(a, b) == IF a <= b THEN a ELSE b
Max(a, b) == IF a >= b THEN a ELSE b

\* `x >= n` for the exact value of a float x = num/den (den > 0)
AtLeast(x, n) == x.num >= n * x.den

----------------------------------------------------------------------------
(* ThreatDetector._assess_threat_level *)

NoResult == [raised |-> FALSE, done |-> FALSE]
Raised   == [raised |-> TRUE, done |-> TRUE]

\* combined_score = (pattern_score + ai_score) / 2   (true division)
CombinedScoreFloor(pattern_score, ai_score) ==
    [num |-> (pattern_score + ai_score) \div 2, den |-> 1]
CombinedScore(pattern_score, ai_score) ==
    [num |-> pattern_score + ai_score, den |-> 2]

\* the if / elif chain over combined_score
ThreatLevelStrict(combined_score) ==
    IF combined_score.num > 8 * combined_score.den THEN "CRITICAL"
    ELSE IF combined_score.num > 6 * combined_score.den THEN "HIGH"
    ELSE IF combined_score.num > 4 * combined_score.den THEN "MEDIUM"
    ELSE IF combined_score.num > 2 * combined_score.den THEN "LOW"
    ELSE "INFO"
ThreatLevel(combined_score) ==
    IF AtLeast(combined_score, 8) THEN "CRITICAL"
    ELSE IF AtLeast(combined_score, 6) THEN "HIGH"
    ELSE IF AtLeast(combined_score, 4) THEN "MEDIUM"
    ELSE IF AtLeast(combined_score, 2) THEN "LOW"
    ELSE "INFO"

\* for pattern in patterns: if 'brute_force' in pattern ... elif 'reconnaissance' ...
PatternCategories(patterns) ==
    {"brute_force" : i \in {j \in DOMAIN patterns :
                               Contains(patterns[j], "brute_force")}}
    \cup
    {"reconnaissance" : i \in {j \in DOMAIN patterns :
                               /\ ~Contains(patterns[j], "brute_force")
                               /\ Contains(patterns[j], "reconnaissance")}}

\* what set.update(value) adds: the elements of a list, the characters of a
\* string (kept as one token)
Iterate(value) == IF value.t = "list" THEN value.v ELSE {"characters"}

\* The statements of _assess_threat_level that raise: `.get` on a non-dict,
\* int + non-number, set.update(non-iterable), max(int, non-number).
AssessRaises(pa, ai) ==
    \/ ai.t # "obj"
    \/ Get(ai.risk_score, Num(0)).t # "num"
    \/ (ai.threat_categories # <<>> /\ ai.threat_categories[1].t \in {"num", "null"})
    \/ Get(ai.confidence, Num(0)).t # "num"

_assess_threat_level(pa, ai) ==
    IF AssessRaises(pa, ai) THEN Raised
    ELSE
      LET pattern_score  == pa.risk_score
          ai_score       == Get(ai.risk_score, Num(0)).v
          combined_score == CombinedScore(pattern_score, ai_score)
          ai_categories  == IF ai.threat_categories = <<>> THEN {}
                            ELSE Iterate(ai.threat_categories[1])
      IN [raised         |-> FALSE,
          done           |-> TRUE,
          threat_level   |-> ThreatLevel(combined_score),
          risk_score     |-> combined_score,
          confidence     |-> Max(pa.confidence, Get(ai.confidence, Num(0)).v),
          categories     |-> ai_categories \cup PatternCategories(pa.patterns_found),
          patterns_found |-> pa.patterns_found,
          ai_reasoning   |-> Get(ai.reasoning, "")]

----------------------------------------------------------------------------
(* CloudTrail events.  An optional field is <<>> when the key is absent    *)
(* (dict.get gives None) and <<value>> when present.                       *)

None == <<>>
Some(x) == <<x>>

\* str.lower(), word by word
LowerWord(w) ==
    CASE w = "Nmap"   -> "nmap"
      [] w = "SQLMap" -> "sqlmap"
      [] OTHER        -> w
Lower(text) == [i \in DOMAIN text |-> LowerWord(text[i])]

\* ThreatDetector._load_suspicious_patterns
ApiCallsWithoutGetUser ==
    { <<"Describe", "Instances">>, <<"Describe", "SecurityGroups">>,
      <<"Describe", "Vpcs">>, <<"List", "Buckets">>, <<"Get", "BucketPolicy">>,
      <<"Describe", "DBInstances">>, <<"List", "Users">>,
      <<"Get", "Role">>, <<"List", "Roles">> }
ApiCalls ==
    { <<"Describe", "Instances">>, <<"Describe", "SecurityGroups">>,
      <<"Describe", "Vpcs">>, <<"List", "Buckets">>, <<"Get", "BucketPolicy">>,
      <<"Describe", "DBInstances">>, <<"Get", "User">>, <<"List", "Users">>,
      <<"Get", "Role">>, <<"List", "Roles">> }
UserAgentsReversed ==
    <<"w3af", "zap", "burp", "metasploit", "hydra", "gobuster", "dirb", "nikto",
      "sqlmap", "nmap">>
UserAgents ==
    <<"nmap", "sqlmap", "nikto", "dirb", "gobuster", "hydra",
      "metasploit", "burp", "zap", "w3af">>

\* ThreatDetector._extract_event_details: every key is set, to None when the
\* event lacks it
_extract_event_details(detail) ==
    [event_id   |-> detail.eventID,
     event_name |-> detail.eventName,
     event_time |-> detail.eventTime,
     source_ip  |-> detail.sourceIPAddress,
     user_agent |-> detail.userAgent,
     error_code |-> detail.errorCode]

\* Python truthiness of an optional text
Truthy(entry) == entry # None /\ entry[1] # <<>>

\* the user-agent loop of _pattern_analysis: one tag per catalog entry found,
\* in catalog order
UserAgentTags(user_agent) ==
    LET hit(s) == Contains(user_agent, s)
        found  == SelectSeq(UserAgents, hit)
    IN [i \in DOMAIN found |-> <<"suspicious_user_agent:", found[i]>>]

OffHoursInclusive(hour) == hour <= 6 \/ hour >= 22
OffHours(hour) == hour < 6 \/ hour > 22

\* ThreatDetector._pattern_analysis; None.lower() raises AttributeError
_pattern_analysis(d) ==
    IF d.user_agent = None THEN Raised
    ELSE
      LET api_hit   == d.event_name # None /\ d.event_name[1] \in ApiCalls
          api_tags  == IF api_hit
                       THEN << <<"suspicious_api_call:">> \o d.event_name[1] >>
                       ELSE <<>>
          ua_tags   == UserAgentTags(Lower(d.user_agent[1]))
          err_hit   == Truthy(d.error_code)
          err_tags  == IF err_hit
                       THEN << <<"api_error:">> \o d.error_code[1] >>
                       ELSE <<>>
          time_hit  == d.event_time # None /\ OffHours(d.event_time[1])
          time_tags == IF time_hit THEN << <<"off_hours_activity">> >> ELSE <<>>
          score     == (IF api_hit THEN 2 ELSE 0) + 5 * Len(ua_tags)
                       + (IF err_hit THEN 1 ELSE 0) + (IF time_hit THEN 1 ELSE 0)
      IN [raised         |-> FALSE,
          done           |-> TRUE,
          patterns_found |-> api_tags \o ua_tags \o err_tags \o time_tags,
          risk_score     |-> score,
          confidence     |-> IF score * 10 <= 100 THEN score * 10 ELSE 100]

\* no parsed answer: invoke_model or json.loads raised
NoAnswer == [t |-> "none"]

\* the dict _ai_analysis returns from its except branch
AiFailureSentinelFailClosed ==
    [t                 |-> "obj",
     threat_categories |-> <<[t |-> "list", v |-> {}]>>,
     confidence        |-> <<Num(0)>>,
     reasoning         |-> <<"AI analysis failed">>,
     risk_score        |-> <<Num(10)>>]
AiFailureSentinel ==
    [t                 |-> "obj",
     threat_categories |-> Some([t |-> "list", v |-> {}]),
     confidence        |-> Some(Num(0)),
     reasoning         |-> Some("AI analysis failed"),
     risk_score        |-> None]

\* ThreatDetector._ai_analysis: the parsed answer of the model, or the
\* sentinel when the call or either json.loads raised
_ai_analysisPropagates(bedrock) == bedrock.body
_ai_analysis(bedrock) ==
    IF bedrock.ok /\ bedrock.parses THEN bedrock.body ELSE AiFailureSentinel

\* ThreatDetector.analyze_event: [raised, pattern, ai, assessment]
analyze_event(detail, bedrock) ==
    LET d  == _extract_event_details(detail)
        pa == _pattern_analysis(d)
        ai == _ai_analysis(bedrock)
    IN IF pa.raised
       THEN [raised |-> TRUE, pattern |-> pa, ai |-> ai, assessment |-> Raised]
       ELSE LET ta == _assess_threat_level(pa, ai)
            IN [raised |-> ta.raised, pattern |-> pa, ai |-> ai, assessment |-> ta]

----------------------------------------------------------------------------
(* IntelligenceCollector: attack patterns and the attacker profile.        *)
(* A Python set is [t |-> "set", v |-> elements].  A list made by          *)
(* list(a_set) is [t |-> "list", v |-> elements]: it has no duplicates and *)
(* nothing reads its order.  DynamoDB stores a list as a list and returns  *)
(* it as a list.                                                           *)

PySet(S)  == [t |-> "set", v |-> S]
PyList(S) == [t |-> "list", v |-> S]

\* A list as JSON delivers it, with its order and its repetitions, and the
\* elements `x in a_list` ranges over
JsonList(seq) == [t |-> "seq", v |-> seq]
Elements(list) == IF list.t = "seq" THEN Range(list.v) ELSE list.v

EmptyDict == [exists |-> FALSE]

SourceIps == {"203.0.113.25", "198.51.100.7"}

\* IntelligenceCollector._analyze_attack_patterns: `'Describe' in None` and
\* None.lower() raise
_analyze_attack_patternsWithNikto(d) ==
    IF d.event_name = None \/ d.user_agent = None THEN Raised
    ELSE
      LET event_name == d.event_name[1]
          user_agent == Lower(d.user_agent[1])
          pick(words, tag) == IF \E w \in words : Contains(event_name, w)
                              THEN <<tag>> ELSE <<>>
          tool(name) == IF Contains(user_agent, name) THEN <<name>> ELSE <<>>
      IN [raised         |-> FALSE,
          done           |-> TRUE,
          attack_vectors |-> pick({"Describe"}, "reconnaissance")
                             \o pick({"Get"}, "data_access")
                             \o pick({"Create", "Put"}, "resource_creation"),
          tools_used     |-> tool("nmap") \o tool("sqlmap") \o tool("nikto")]
_analyze_attack_patterns(d) ==
    IF d.event_name = None \/ d.user_agent = None THEN Raised
    ELSE
      LET event_name == d.event_name[1]
          user_agent == Lower(d.user_agent[1])
          pick(words, tag) == IF \E w \in words : Contains(event_name, w)
                              THEN <<tag>> ELSE <<>>
          tool(name) == IF Contains(user_agent, name) THEN <<name>> ELSE <<>>
      IN [raised         |-> FALSE,
          done           |-> TRUE,
          attack_vectors |-> pick({"Describe"}, "reconnaissance")
                             \o pick({"Get"}, "data_access")
                             \o pick({"Create", "Put"}, "resource_creation"),
          tools_used     |-> tool("nmap") \o tool("sqlmap") \o tool("metasploit")]

\* response.get('Item', {... 'attack_count': 0, 'attack_vectors': set(), ...})
ProfileFromResponse(response, source_ip, event_time) ==
    IF response.exists THEN response
    ELSE [exists         |-> TRUE,
          source_ip      |-> source_ip,
          first_seen     |-> event_time,
          attack_count   |-> 0,
          attack_vectors |-> PySet({}),
          tools_used     |-> PySet({}),
          threat_levels  |-> <<>>,
          last_activity  |-> event_time]

\* profile[...].update(...) raises AttributeError on a list
UpdateRaises(profile) ==
    profile.attack_vectors.t # "set" \/ profile.tools_used.t # "set"

\* the "Update profile" and "Convert sets to lists" statements
UpdatedProfile(profile, attack_patterns, event_time) ==
    [profile EXCEPT
        !.attack_count   = @ + 1,
        !.attack_vectors = PyList(@.v \cup Range(attack_patterns.attack_vectors)),
        !.tools_used     = PyList(@.v \cup Range(attack_patterns.tools_used)),
        !.last_activity  = event_time]

----------------------------------------------------------------------------
(* Concurrent _update_attacker_profile calls: each is a get_item followed  *)
(* by a put_item, and Lambda runs the invocations side by side.            *)

Upserts == 1..MaxUpserts

PatternSamples ==
    { [attack_vectors |-> <<>>, tools_used |-> <<"sqlmap">>],
      [attack_vectors |-> <<"reconnaissance">>, tools_used |-> <<"nmap">>],
      [attack_vectors |-> <<"data_access">>, tools_used |-> <<"sqlmap">>] }

IdleUpsert == [pc |-> "idle"]

InitProfile ==
    /\ attacker_profiles_table = [ip \in SourceIps |-> EmptyDict]
    /\ upsert = [u \in Upserts |-> IdleUpsert]
    /\ pattern_analysis = NoResult
    /\ ai_analysis = NoResult
    /\ threat_assessment = NoResult
    /\ PipelineIdle

\* collect_intelligence calls _update_attacker_profile; calls are numbered in
\* the order they start and event u carries time u.  threat_level is the
\* level of the assessment collect_intelligence holds (it is not passed on).
UpsertStart(u) ==
    /\ upsert[u].pc = "idle"
    /\ \A v \in Upserts : v < u => upsert[v].pc # "idle"
    /\ \E ip \in SourceIps, ap \in PatternSamples, level \in {"HIGH", "CRITICAL"} :
          upsert' = [upsert EXCEPT ![u] =
                       [pc              |-> "get_item",
                        source_ip       |-> ip,
                        event_time      |-> Some(u),
                        attack_patterns |-> ap,
                        threat_level    |-> level,
                        overlapped      |-> \E v \in Upserts :
                                               upsert[v].pc \in {"get_item", "put_item"}]]
    /\ UNCHANGED <<attacker_profiles_table, assessVars, pipeVars>>

\* response = self.attacker_profiles_table.get_item(Key={'source_ip': source_ip})
UpsertGetItem(u) ==
    /\ upsert[u].pc = "get_item"
    /\ upsert' = [upsert EXCEPT ![u] =
                    [pc              |-> "put_item",
                     source_ip       |-> @.source_ip,
                     event_time      |-> @.event_time,
                     attack_patterns |-> @.attack_patterns,
                     threat_level    |-> @.threat_level,
                     overlapped      |-> @.overlapped,
                     response        |-> attacker_profiles_table[@.source_ip]]]
    /\ UNCHANGED <<attacker_profiles_table, assessVars, pipeVars>>

\* what put_item leaves in the table: Item replaces the item of its key
PutItemRolledBack(table, item) == table
PutItem(table, item) == [table EXCEPT ![item.source_ip] = item]

\* the update, the put_item and the return; an exception returns {} before
\* anything is put.  stored_before / stored_after record the table's item of
\* the key around this step.
UpsertPutItem(u) ==
    /\ upsert[u].pc = "put_item"
    /\ LET c       == upsert[u]
           profile == ProfileFromResponse(c.response, c.source_ip, c.event_time)
           raises  == UpdateRaises(profile)
           updated == UpdatedProfile(profile, c.attack_patterns, c.event_time)
           table   == IF raises THEN attacker_profiles_table
                      ELSE PutItem(attacker_profiles_table, updated)
       IN /\ attacker_profiles_table' = table
          /\ upsert' = [upsert EXCEPT ![u] =
                [pc              |-> "done",
                 source_ip       |-> c.source_ip,
                 event_time      |-> c.event_time,
                 attack_patterns |-> c.attack_patterns,
                 threat_level    |-> c.threat_level,
                 overlapped      |-> c.overlapped,
                 response        |-> c.response,
                 raised          |-> raises,
                 result          |-> IF raises THEN EmptyDict ELSE updated,
                 stored_before   |-> attacker_profiles_table[c.source_ip],
                 stored_after    |-> table[c.source_ip]]]
    /\ UNCHANGED <<assessVars, pipeVars>>

NextProfile ==
    \E u \in Upserts : UpsertStart(u) \/ UpsertGetItem(u) \/ UpsertPutItem(u)

SpecProfile == InitProfile /\ [][NextProfile]_vars

----------------------------------------------------------------------------
(* The pipeline: the threat detector Lambda, and the Lambdas that consume   *)
(* what it publishes.  Every call to an AWS service may fail.               *)

Call(by, name, ok) == [by |-> by, call |-> name, ok |-> ok]

\* lambda_handler: `threat_level in ['MEDIUM', 'HIGH', 'CRITICAL']`
StoresIntelFromLow(level) == level \in {"LOW", "MEDIUM", "HIGH", "CRITICAL"}
StoresIntel(level) == level \in {"MEDIUM", "HIGH", "CRITICAL"}

\* lambda_handler: `threat_level in ['HIGH', 'CRITICAL']`
TriggersResponseFromMedium(level) == level \in {"MEDIUM", "HIGH", "CRITICAL"}
TriggersResponse(level) == level \in {"HIGH", "CRITICAL"}

\* collect_intelligence: `threat_level in ['HIGH', 'CRITICAL']`
TriggersDeepAnalysisCriticalOnly(level) == level \in {"CRITICAL"}
TriggersDeepAnalysisHighOnly(level) == level \in {"HIGH"}
TriggersDeepAnalysis(level) == level \in {"HIGH", "CRITICAL"}

\* trigger_incident_response: the 'Threat Detected' event
ThreatDetectedEvent(original_event, assessment) ==
    [original_event |-> original_event, threat_assessment |-> assessment]

\* EventBridge delivers a published 'Threat Detected' event to the incident
\* response Lambda and to the intelligence collector Lambda
RouteThreatDetected(b, msg) ==
    [b EXCEPT !.incident_response = Append(@, msg),
              !.intel_collector   = Append(@, msg)]

\* the collector's result reaches the honeypot manager Lambda with the merged
\* profile as detail.attack_patterns
RouteIntelligence(b, result, assessment) ==
    [b EXCEPT !.honeypot_manager =
        Append(@, [attack_patterns   |-> result.attacker_profile,
                   threat_assessment |-> assessment])]

\* the outbound calls of threat_detector.lambda_handler after the analysis:
\* store_threat_intelligence, trigger_incident_response, send_metrics; each
\* catches its own exception
DetectorCallsWithoutMetrics(level, ok) ==
    (IF StoresIntel(level)
       THEN <<[by |-> "threat_detector", call |-> "threat_intel.put_item",
               ok |-> ok.store, ttl_days |-> 30]>>
       ELSE <<>>)
    \o (IF TriggersResponse(level)
          THEN <<Call("threat_detector", "eventbridge.put_events", ok.publish)>>
          ELSE <<>>)
DetectorCallsResponseFirst(level, ok) ==
    (IF TriggersResponse(level)
       THEN <<Call("threat_detector", "eventbridge.put_events", ok.publish)>>
       ELSE <<>>)
    \o (IF StoresIntel(level)
          THEN <<[by |-> "threat_detector", call |-> "threat_intel.put_item",
                  ok |-> ok.store, ttl_days |-> 30]>>
          ELSE <<>>)
    \o <<[by |-> "threat_detector", call |-> "cloudwatch.put_metric_data",
          ok |-> ok.metrics,
          metrics |-> <<[MetricName |-> "ThreatsDetected", ThreatLevel |-> level],
                        [MetricName |-> "RiskScore", ThreatLevel |-> level]>>]>>
DetectorCalls(level, ok) ==
    (IF StoresIntel(level)
       THEN <<[by |-> "threat_detector", call |-> "threat_intel.put_item",
               ok |-> ok.store, ttl_days |-> 30]>>
       ELSE <<>>)
    \o (IF TriggersResponse(level)
          THEN <<Call("threat_detector", "eventbridge.put_events", ok.publish)>>
          ELSE <<>>)
    \o <<[by |-> "threat_detector", call |-> "cloudwatch.put_metric_data",
          ok |-> ok.metrics,
          metrics |-> <<[MetricName |-> "ThreatsDetected", ThreatLevel |-> level],
                        [MetricName |-> "RiskScore", ThreatLevel |-> level]>>]>>

\* _ai_analysis: bedrock.invoke_model, and whether its answer was usable
ClassifierCall(bedrock) ==
    <<[by |-> "threat_detector", call |-> "bedrock.invoke_model",
       ok |-> bedrock.ok, parses |-> bedrock.parses, answer |-> bedrock.body]>>

EventNames ==
    {None, Some(<<"Describe", "Instances">>), Some(<<"Get", "User">>),
     Some(<<"Put", "Object">>)}
EventUserAgents ==
    {None, Some(<<"aws-cli/2.0.0">>), Some(<<"sqlmap", "/1.6.12">>),
     Some(<<"Nmap", "nikto">>)}
EventErrorCodes == {None, Some(<<"AccessDenied">>)}
EventHours == {None, Some(3), Some(10)}
EventIps == {None, Some("203.0.113.25")}

Events ==
    [exists          : {TRUE},
     eventID         : {Some("test-event-id")},
     eventName       : EventNames,
     eventTime       : EventHours,
     sourceIPAddress : EventIps,
     userAgent       : EventUserAgents,
     errorCode       : EventErrorCodes]

AiAnswer(score) ==
    [t                 |-> "obj",
     threat_categories |-> Some([t |-> "list", v |-> {"reconnaissance"}]),
     confidence        |-> Some(Num(90)),
     reasoning         |-> Some("Normal administrative activity"),
     risk_score        |-> Some(score)]

\* Answers that are JSON but not of the schema the prompt asks for: not an
\* object, a key missing, a null or wrongly typed field, a number out of range
AiDeviations ==
    { [t |-> "list", v |-> {}],
      [AiAnswer(Num(2)) EXCEPT !.risk_score = None],
      [AiAnswer(Num(2)) EXCEPT !.threat_categories = None],
      AiAnswer(Null),
      AiAnswer(Str),
      AiAnswer(Num(50)),
      [AiAnswer(Num(2)) EXCEPT !.confidence = Some(Null)],
      [AiAnswer(Num(2)) EXCEPT !.threat_categories = Some(Null)],
      [AiAnswer(Num(2)) EXCEPT !.threat_categories = Some(Str)] }

\* what bedrock.invoke_model and the two json.loads give: `ok` is
\* invoke_model returning (no transport error, no timeout), `parses` is both
\* json.loads and the indexing of the body succeeding
BedrockOutcomes ==
    {[ok |-> FALSE, parses |-> FALSE, body |-> NoAnswer],
     [ok |-> TRUE,  parses |-> FALSE, body |-> NoAnswer]}
    \cup {[ok |-> TRUE, parses |-> TRUE, body |-> b] :
             b \in {AiAnswer(Num(3)), AiAnswer(Num(4)), AiAnswer(Num(10))}
                   \cup AiDeviations}

Quiescent ==
    /\ bus.incident_response = <<>>
    /\ bus.intel_collector = <<>>
    /\ bus.honeypot_manager = <<>>

\* The profiles an earlier event of the source can have left in the table:
\* what the first upsert for the key stored.
StoredProfiles ==
    {UpdatedProfile(ProfileFromResponse(EmptyDict, "203.0.113.25", Some(1)),
                    ap, Some(1)) :
        ap \in {[attack_vectors |-> <<"reconnaissance">>, tools_used |-> <<"nmap">>],
                [attack_vectors |-> <<"data_access">>, tools_used |-> <<"sqlmap">>]}}

\* One event is followed through the pipeline, from any state of the profile
\* table that earlier events can have left.
InitPipeline ==
    /\ PipelineIdle
    /\ pattern_analysis = NoResult
    /\ ai_analysis = NoResult
    /\ threat_assessment = NoResult
    /\ \E stored \in {EmptyDict} \cup StoredProfiles :
          attacker_profiles_table =
              [ip \in SourceIps |-> IF ip = "203.0.113.25" THEN stored ELSE EmptyDict]
    /\ upsert = <<>>

\* threat_detector.lambda_handler, invoked with one event
ThreatDetectorHandler ==
    /\ detector = "idle"
    /\ \E ev \in Events, bedrock \in BedrockOutcomes,
          ok \in [store : BOOLEAN, publish : BOOLEAN, metrics : BOOLEAN] :
          LET a  == analyze_event(ev, bedrock)
              ta == a.assessment
          IN /\ event' = ev
             /\ pattern_analysis' = a.pattern
             /\ ai_analysis' = a.ai
             /\ threat_assessment' = ta
             /\ IF a.raised
                THEN /\ detector' = "raised"
                     /\ calls' = IF a.pattern.raised THEN <<>>
                                 ELSE ClassifierCall(bedrock)
                     /\ bus' = bus
                ELSE /\ detector' = "ok"
                     /\ calls' = ClassifierCall(bedrock)
                                 \o DetectorCalls(ta.threat_level, ok)
                     /\ bus' = IF TriggersResponse(ta.threat_level) /\ ok.publish
                               THEN RouteThreatDetected(bus, ThreatDetectedEvent(ev, ta))
                               ELSE bus
    /\ UNCHANGED profileVars

\* threat_assessment.get('threat_level', 'LOW')
ResponseLevel(assessment) ==
    IF "threat_level" \in DOMAIN assessment THEN assessment.threat_level ELSE "LOW"

ActionsTakenIgnoringSource(threat_level, source_ip) ==
    (IF threat_level \in {"HIGH", "CRITICAL"}
       THEN <<"waf_ip_block", "security_group_deny">>
       ELSE <<>>)
    \o <<"alert_sent">>

\* IncidentResponseOrchestrator.execute_response: the entries of actions_taken
ActionsTaken(threat_level, source_ip) ==
    (IF threat_level \in {"HIGH", "CRITICAL"} /\ source_ip # None /\ source_ip[1] # ""
       THEN <<"waf_ip_block", "security_group_deny">>
       ELSE <<>>)
    \o <<"alert_sent">>

\* incident_response.lambda_handler; _send_alert catches a failed put_events
IncidentResponseHandler ==
    /\ bus.incident_response # <<>>
    /\ \E ok \in BOOLEAN :
          LET msg   == Head(bus.incident_response)
              level == ResponseLevel(msg.threat_assessment)
              taken == ActionsTaken(level, msg.original_event.sourceIPAddress)
          IN /\ bus' = [bus EXCEPT !.incident_response = Tail(@)]
             /\ calls' = calls \o
                  <<[by |-> "incident_response", call |-> "execute_response",
                     ok |-> TRUE,
                     threat_assessment |-> msg.threat_assessment,
                     original_event |-> msg.original_event,
                     response_type |-> level, actions_taken |-> taken],
                    Call("incident_response", "eventbridge.put_events", ok)>>
    /\ UNCHANGED <<event, detector, assessVars, profileVars>>

\* IntelligenceCollector._update_attacker_profile run in one piece:
\* [profile returned, table left behind, calls made]
_update_attacker_profile(table, d, attack_patterns, ok) ==
    IF d.source_ip = None \/ d.source_ip[1] = ""
    THEN [profile |-> EmptyDict, table |-> table, calls |-> <<>>]
    ELSE
      LET get == Call("intel_collector", "attacker_profiles.get_item", ok.get)
          put == Call("intel_collector", "attacker_profiles.put_item", ok.put)
          profile == ProfileFromResponse(table[d.source_ip[1]], d.source_ip[1],
                                         d.event_time)
          updated == UpdatedProfile(profile, attack_patterns, d.event_time)
      IN IF ~ok.get
         THEN [profile |-> EmptyDict, table |-> table, calls |-> <<get>>]
         ELSE IF UpdateRaises(profile)
         THEN [profile |-> EmptyDict, table |-> table, calls |-> <<get>>]
         ELSE IF ~ok.put
         THEN [profile |-> EmptyDict, table |-> table, calls |-> <<get, put>>]
         ELSE [profile |-> updated, table |-> PutItem(table, updated),
               calls |-> <<get, put>>]

\* what collect_intelligence returns
CollectorReturn(attack_patterns, attacker_profile) ==
    [by |-> "intel_collector", call |-> "collect_intelligence.return", ok |-> TRUE,
     attack_patterns |-> attack_patterns, attacker_profile |-> attacker_profile]

\* intel_collector.lambda_handler -> collect_intelligence.  A failed
\* _store_intelligence is raised again and ends the handler.
IntelCollectorHandler ==
    /\ bus.intel_collector # <<>>
    /\ \E ok \in [get : BOOLEAN, put : BOOLEAN, store : BOOLEAN] :
          LET msg   == Head(bus.intel_collector)
              ta    == msg.threat_assessment
              d     == _extract_event_details(msg.original_event)
              ap    == _analyze_attack_patterns(d)
              up    == _update_attacker_profile(attacker_profiles_table, d, ap, ok)
              store == [by |-> "intel_collector", call |-> "threat_intel.put_item",
                        ok |-> ok.store, ttl_days |-> 90]
              deep  == IF TriggersDeepAnalysis(ta.threat_level)
                       THEN <<Call("intel_collector", "_trigger_deep_analysis", TRUE)>>
                       ELSE <<>>
              rest  == [bus EXCEPT !.intel_collector = Tail(@)]
          IN IF ap.raised
             THEN /\ bus' = rest
                  /\ calls' = Append(calls, Call("intel_collector", "raise", FALSE))
                  /\ UNCHANGED attacker_profiles_table
             ELSE /\ attacker_profiles_table' = up.table
                  /\ IF ~ok.store
                     THEN /\ bus' = rest
                          /\ calls' = calls \o up.calls
                                      \o <<store, Call("intel_collector", "raise", FALSE)>>
                     ELSE /\ bus' = RouteIntelligence(
                                       rest,
                                       [attack_patterns  |-> ap,
                                        attacker_profile |-> up.profile], ta)
                          /\ calls' = calls \o up.calls \o <<store>> \o deep
                                      \o <<CollectorReturn(ap, up.profile)>>
    /\ UNCHANGED <<event, detector, assessVars, upsert>>

\* attack_patterns.get(key, []) on the dict the honeypot manager is handed
PatternList(attack_patterns, key) ==
    IF attack_patterns.exists THEN Elements(attack_patterns[key]) ELSE {}

_determine_honeypot_typesVectorsOnly(attack_patterns) ==
    LET attack_vectors == PatternList(attack_patterns, "attack_vectors")
    IN (IF "database" \in attack_vectors THEN <<"database">> ELSE <<>>)
       \o (IF "data_access" \in attack_vectors THEN <<"file_server">> ELSE <<>>)
       \o (IF "api" \in attack_vectors THEN <<"api_endpoint">> ELSE <<>>)

\* HoneypotManager._determine_honeypot_types
_determine_honeypot_types(attack_patterns) ==
    LET attack_vectors == PatternList(attack_patterns, "attack_vectors")
        tools_used     == PatternList(attack_patterns, "tools_used")
    IN (IF \E tool \in {"sqlmap", "nikto", "dirb"} : tool \in tools_used
          THEN <<"web_server">> ELSE <<>>)
       \o (IF "sqlmap" \in tools_used \/ "database" \in attack_vectors
             THEN <<"database">> ELSE <<>>)
       \o (IF "data_access" \in attack_vectors THEN <<"file_server">> ELSE <<>>)
       \o (IF "api" \in attack_vectors \/ \E tool \in {"burp", "zap"} : tool \in tools_used
             THEN <<"api_endpoint">> ELSE <<>>)

\* honeypot_manager.lambda_handler -> adapt_honeypots
HoneypotManagerHandler ==
    /\ bus.honeypot_manager # <<>>
    /\ LET msg == Head(bus.honeypot_manager)
       IN /\ bus' = [bus EXCEPT !.honeypot_manager = Tail(@)]
          /\ calls' = Append(calls,
                [by |-> "honeypot_manager", call |-> "adapt_honeypots", ok |-> TRUE,
                 attack_patterns |-> msg.attack_patterns,
                 honeypot_types  |-> _determine_honeypot_types(msg.attack_patterns)])
    /\ UNCHANGED <<event, detector, assessVars, profileVars>>

Next ==
    \/ ThreatDetectorHandler
    \/ IncidentResponseHandler
    \/ IntelCollectorHandler
    \/ HoneypotManagerHandler

Spec == InitPipeline /\ [][Next]_vars

----------------------------------------------------------------------------
(* Inputs of _assess_threat_level taken as a function on its own *)

PatternTagSamples ==
    { <<>>,
      << <<"suspicious_user_agent:", "sqlmap">>, <<"api_error:", "AccessDenied">> >>,
      << <<"api_error:", "brute_force">>, <<"api_error:", "reconnaissance">> >>,
      << <<"api_error:", "brute_force", "reconnaissance">> >> }

PatternAnalyses ==
    [patterns_found : PatternTagSamples,
     risk_score     : 0..MaxPatternScore,
     confidence     : {0, 85}]

AiScoreEntries ==
    {<<>>} \cup {<<Num(n)>> : n \in -1..MaxAiScore} \cup {<<Str>>, <<Null>>}

AiAnalyses ==
    [t                 : {"obj"},
     threat_categories : {<<>>, <<[t |-> "list", v |-> {}]>>,
                          <<[t |-> "list", v |-> {"brute_force", "data_exfiltration"}]>>,
                          <<Null>>},
     confidence        : {<<>>, <<Num(40)>>, <<Num(90)>>, <<Str>>},
     reasoning         : {<<>>, <<"Normal administrative activity">>},
     risk_score        : AiScoreEntries]
    \cup
    {[t |-> "list", threat_categories |-> <<>>, confidence |-> <<>>,
      reasoning |-> <<>>, risk_score |-> <<>>],
     AiFailureSentinel}

InitAssess ==
    /\ pattern_analysis \in PatternAnalyses
    /\ ai_analysis \in AiAnalyses
    /\ threat_assessment = NoResult
    /\ attacker_profiles_table = [ip \in SourceIps |-> EmptyDict]
    /\ upsert = <<>>
    /\ PipelineIdle

Assess ==
    /\ ~threat_assessment.done
    /\ threat_assessment' = _assess_threat_level(pattern_analysis, ai_analysis)
    /\ UNCHANGED <<pattern_analysis, ai_analysis, profileVars, pipeVars>>

NextAssess == Assess

SpecAssess == InitAssess /\ [][NextAssess]_vars

----------------------------------------------------------------------------
(* C1: the level returned by _assess_threat_level is decided by the        *)
(* combined score alone: CRITICAL iff combined >= 8, HIGH iff 6 <= combined *)
(* < 8, MEDIUM iff 4 <= combined < 6, LOW iff 2 <= combined < 4, INFO       *)
(* otherwise; twice the combined score is pattern score + semantic score.  *)
Assessed == threat_assessment.done /\ ~threat_assessment.raised

ScoreSum == pattern_analysis.risk_score + Get(ai_analysis.risk_score, Num(0)).v

C1_LevelByThreshold ==
    Assessed =>
        LET l == threat_assessment.threat_level
            s == ScoreSum
        IN /\ (l = "CRITICAL") <=> (s >= 16)
           /\ (l = "HIGH")     <=> (12 <= s /\ s < 16)
           /\ (l = "MEDIUM")   <=> (8 <= s /\ s < 12)
           /\ (l = "LOW")      <=> (4 <= s /\ s < 8)
           /\ (l = "INFO")     <=> (s < 4)

\* a combined score exactly on a threshold (6.0) has been assessed
C1_Witness ==
    /\ Assessed
    /\ ScoreSum = 12
    /\ threat_assessment.threat_level = "HIGH"

(* C2: risk_score = (patternScore + semanticScore) / 2, a missing semantic *)
(* score counting as 0, and it does not decrease when either score grows   *)
(* with the other input held fixed.                                        *)
LeqFrac(x, y) == x.num * y.den <= y.num * x.den

C2_RiskScoreIsMean ==
    Assessed =>
        /\ 2 * threat_assessment.risk_score.num
             = ScoreSum * threat_assessment.risk_score.den
        /\ \A p \in pattern_analysis.risk_score..MaxPatternScore :
              LET r == _assess_threat_level(
                         [pattern_analysis EXCEPT !.risk_score = p], ai_analysis)
              IN LeqFrac(threat_assessment.risk_score, r.risk_score)
        /\ \A a \in Get(ai_analysis.risk_score, Num(0)).v..MaxAiScore :
              LET r == _assess_threat_level(
                         pattern_analysis,
                         [ai_analysis EXCEPT !.risk_score = <<Num(a)>>])
              IN LeqFrac(threat_assessment.risk_score, r.risk_score)

\* an odd sum (combined score 6.5) with the semantic score missing elsewhere
C2_Witness ==
    /\ Assessed
    /\ ScoreSum = 13
    /\ threat_assessment.risk_score = [num |-> 13, den |-> 2]

----------------------------------------------------------------------------
(* Response routing.  The action kinds are counted by the calls that make  *)
(* them: PersistIntelligence is a put_item on the threat-intel table,      *)
(* ExecuteCountermeasures an execute_response, AdaptHoneypots an           *)
(* adapt_honeypots, EscalateDeepAnalysis a _trigger_deep_analysis.         *)

CallsOf(by, name) == {i \in DOMAIN calls : calls[i].by = by /\ calls[i].call = name}
Count(by, name) == Cardinality(CallsOf(by, name))
Succeeded(by, name) == \E i \in CallsOf(by, name) : calls[i].ok

AssessedAt(level) == detector = "ok" /\ threat_assessment.threat_level = level

Persisted ==
    Count("threat_detector", "threat_intel.put_item")
        + Count("intel_collector", "threat_intel.put_item")
Countermeasures == Count("incident_response", "execute_response")
Adaptations == Count("honeypot_manager", "adapt_honeypots")
DeepAnalyses == Count("intel_collector", "_trigger_deep_analysis")

\* the 'Threat Detected' event went out, and the collector wrote its record
Published == Succeeded("threat_detector", "eventbridge.put_events")
CollectorStored == Succeeded("intel_collector", "threat_intel.put_item")

\* the profile handed to the honeypot manager is the one the upsert stored,
\* and the empty dict when the upsert stored nothing
AdaptsToMergedProfile ==
    \A i \in CallsOf("honeypot_manager", "adapt_honeypots") :
        calls[i].attack_patterns =
            IF Succeeded("intel_collector", "attacker_profiles.put_item")
            THEN attacker_profiles_table[event.sourceIPAddress[1]]
            ELSE EmptyDict

\* what the pipeline emits for an event assessed at HIGH or CRITICAL
EmitsForResponse ==
    /\ Count("threat_detector", "threat_intel.put_item") = 1
    /\ Count("threat_detector", "eventbridge.put_events") = 1
    /\ Published => Countermeasures = 1
    /\ (Published /\ CollectorStored) =>
          /\ Persisted = 2
          /\ Adaptations = 1
          /\ DeepAnalyses = 1
          /\ AdaptsToMergedProfile

C5_MediumPersistsOnly ==
    AssessedAt("MEDIUM") =>
        /\ Quiescent
        /\ Persisted = 1
        /\ Len(calls) = 3
        /\ calls[1].call = "bedrock.invoke_model"
        /\ calls[2].call = "threat_intel.put_item"
        /\ calls[3].call = "cloudwatch.put_metric_data"

C5_Witness ==
    /\ AssessedAt("MEDIUM")
    /\ Persisted = 1
    /\ calls[2].ok

(* C6: for an event assessed INFO or LOW no action request is made: the    *)
(* only outbound call is the metrics call, and nothing is queued for the   *)
(* incident response, the collector or the honeypot manager.               *)
C6_LowEmitsNothing ==
    (AssessedAt("INFO") \/ AssessedAt("LOW")) =>
        /\ Quiescent
        /\ Persisted = 0 /\ Countermeasures = 0 /\ Adaptations = 0 /\ DeepAnalyses = 0
        /\ Len(calls) = 2
        /\ calls[1].call = "bedrock.invoke_model"
        /\ calls[2].call = "cloudwatch.put_metric_data"
        /\ attacker_profiles_table \in
              {[ip \in SourceIps |-> IF ip = "203.0.113.25" THEN stored ELSE EmptyDict] :
                  stored \in {EmptyDict} \cup StoredProfiles}

C6_Witness ==
    /\ AssessedAt("LOW")
    /\ pattern_analysis.risk_score = 6
    /\ calls[2].call = "cloudwatch.put_metric_data"

----------------------------------------------------------------------------
(* _pattern_analysis taken as a function on its own, over events that put  *)
(* each rule on both sides of its condition.                               *)

PatternEventNames ==
    {None, Some(<<"Get", "User">>), Some(<<"List", "Roles">>), Some(<<"Put", "Object">>)}
PatternEventUserAgents ==
    {None, Some(<<>>), Some(<<"aws-cli/2.0.0">>), Some(<<"sqlmap", "/1.6.12">>),
     Some(<<"SQLMap", "sqlmap", "Nmap">>)}
PatternEventErrorCodes == {None, Some(<<>>), Some(<<"AccessDenied">>)}
PatternEventHours == {None, Some(0), Some(5), Some(6), Some(14), Some(22), Some(23)}

PatternEvents ==
    [exists          : {TRUE},
     eventID         : {Some("test-event-id")},
     eventName       : PatternEventNames,
     eventTime       : PatternEventHours,
     sourceIPAddress : {Some("203.0.113.25")},
     userAgent       : PatternEventUserAgents,
     errorCode       : PatternEventErrorCodes]

InitPattern ==
    /\ event \in PatternEvents
    /\ pattern_analysis = NoResult
    /\ ai_analysis = NoResult
    /\ threat_assessment = NoResult
    /\ attacker_profiles_table = [ip \in SourceIps |-> EmptyDict]
    /\ upsert = <<>>
    /\ detector = "idle"
    /\ bus = EmptyBus
    /\ calls = <<>>

\* pattern_analysis = self._pattern_analysis(event_details)
ScorePatterns ==
    /\ ~pattern_analysis.done
    /\ pattern_analysis' = _pattern_analysis(_extract_event_details(event))
    /\ UNCHANGED <<ai_analysis, threat_assessment, profileVars, pipeVars>>

NextPattern == ScorePatterns

SpecPattern == InitPattern /\ [][NextPattern]_vars

PatternScored == pattern_analysis.done /\ ~pattern_analysis.raised

\* the catalog signatures found in the user agent, whatever its case
SignaturesIn(user_agent) ==
    {sig \in Range(UserAgents) :
        \E i \in DOMAIN user_agent : LowerWord(user_agent[i]) = sig}

(* C14: the pattern score is +2 if the event name is in the catalog of     *)
(* sensitive API names, +5 for each distinct catalog signature occurring   *)
(* in the user agent whatever its case, +1 if the error code is non-empty, *)
(* +1 if the hour is below 6 or above 22 (6 and 22 themselves add          *)
(* nothing); the confidence is min(score * 10, 100).                       *)
C14_PatternScoreIsSum ==
    PatternScored =>
        LET name_points == IF event.eventName # None /\ event.eventName[1] \in ApiCalls
                           THEN 2 ELSE 0
            tool_points == 5 * Cardinality(SignaturesIn(event.userAgent[1]))
            error_points == IF event.errorCode \in {None, Some(<<>>)} THEN 0 ELSE 1
            hour_points == IF event.eventTime = None THEN 0
                           ELSE IF event.eventTime[1] \in (0..5) \cup {23} THEN 1 ELSE 0
            score == name_points + tool_points + error_points + hour_points
        IN /\ pattern_analysis.risk_score = score
           /\ pattern_analysis.confidence = IF score >= 10 THEN 100 ELSE score * 10

\* hour 22 adds nothing; a signature written twice, in two cases, counts once
C14_Witness ==
    /\ PatternScored
    /\ event.eventTime = Some(22)
    /\ event.userAgent = Some(<<"SQLMap", "sqlmap", "Nmap">>)
    /\ event.eventName = Some(<<"Get", "User">>)
    /\ event.errorCode = Some(<<"AccessDenied">>)
    /\ pattern_analysis.risk_score = 13
    /\ pattern_analysis.confidence = 100

----------------------------------------------------------------------------
(* Classifier failures and malformed answers *)

ClassifierCalled == CallsOf("threat_detector", "bedrock.invoke_model") # {}
ClassifierFailed ==
    \E i \in CallsOf("threat_detector", "bedrock.invoke_model") :
        ~(calls[i].ok /\ calls[i].parses)

\* the assessment is the one the pattern analysis gives with a semantic
\* score of 0: half the pattern score, through the threshold table
PatternAlone ==
    LET p == pattern_analysis.risk_score
        l == threat_assessment.threat_level
    IN /\ threat_assessment.risk_score.num * 2 = p * threat_assessment.risk_score.den
       /\ (l = "CRITICAL") <=> (p >= 16)
       /\ (l = "HIGH")     <=> (12 <= p /\ p < 16)
       /\ (l = "MEDIUM")   <=> (8 <= p /\ p < 12)
       /\ (l = "LOW")      <=> (4 <= p /\ p < 8)
       /\ (l = "INFO")     <=> (p < 4)
       /\ threat_assessment.confidence = pattern_analysis.confidence
       /\ threat_assessment.patterns_found = pattern_analysis.patterns_found

(* C11: when the classifier call fails (invoke_model raises, or its answer *)
(* cannot be parsed), _ai_analysis returns the sentinel (no categories,    *)
(* score read as 0, confidence 0), analyze_event returns an assessment     *)
(* whose score and level come from the pattern analysis alone, and the     *)
(* handler does not raise.                                                 *)
C11_ClassifierFailureContained ==
    ClassifierFailed =>
        /\ ai_analysis.t = "obj"
        /\ ai_analysis.threat_categories = Some([t |-> "list", v |-> {}])
        /\ ai_analysis.confidence = Some(Num(0))
        /\ Get(ai_analysis.risk_score, Num(0)) = Num(0)
        /\ ai_analysis.reasoning = Some("AI analysis failed")
        /\ detector = "ok"
        /\ Assessed
        /\ PatternAlone

\* an unparseable answer for an event with pattern score 8
C11_Witness ==
    /\ ClassifierFailed
    /\ calls[1].ok
    /\ pattern_analysis.risk_score = 8
    /\ threat_assessment.threat_level = "MEDIUM"

(* C12: when the classifier's answer is well-formed JSON that deviates     *)
(* from the schema (not an object, a key missing, a null or wrongly typed  *)
(* field, a number out of range), the sentinel is used in its place and    *)
(* the handler completes without raising.                                  *)
C12_DeviationIsFailure ==
    \A i \in CallsOf("threat_detector", "bedrock.invoke_model") :
        (calls[i].parses /\ calls[i].answer \in AiDeviations) =>
            /\ ai_analysis = AiFailureSentinel
            /\ detector = "ok"
            /\ Assessed
            /\ PatternAlone

(* C16: an event whose pattern analysis matched no rule and whose semantic *)
(* result is the failure sentinel is assessed INFO.                        *)
C16_NothingFoundIsInfo ==
    (detector # "idle" /\ PatternScored /\ pattern_analysis.patterns_found = <<>>
       /\ ClassifierFailed) =>
        /\ detector = "ok"
        /\ Assessed
        /\ threat_assessment.threat_level = "INFO"
        /\ threat_assessment.risk_score.num = 0
        /\ threat_assessment.categories = {}

C16_Witness ==
    /\ detector = "ok"
    /\ event.eventName = Some(<<"Put", "Object">>)
    /\ pattern_analysis.patterns_found = <<>>
    /\ ClassifierFailed
    /\ threat_assessment.threat_level = "INFO"

----------------------------------------------------------------------------
(* The brute-force scenario: GetUser, sqlmap/1.6.12, AccessDenied *)

ScenarioEvent ==
    /\ event.exists
    /\ event.eventName = Some(<<"Get", "User">>)
    /\ event.userAgent = Some(<<"sqlmap", "/1.6.12">>)
    /\ event.errorCode = Some(<<"AccessDenied">>)

HighOrCritical == threat_assessment.threat_level \in {"HIGH", "CRITICAL"}

\* the classifier failed or gave an answer of the schema
SentinelOrValidAnswer ==
    \A i \in CallsOf("threat_detector", "bedrock.invoke_model") :
        ~(calls[i].parses /\ calls[i].answer \in AiDeviations)

(* C13 as claimed: the scenario event is assessed HIGH or CRITICAL for     *)
(* every classifier outcome, the failure sentinel included, and            *)
(* trigger_incident_response is invoked exactly once.                      *)
C13_ScenarioAsClaimed ==
    (ScenarioEvent /\ ClassifierCalled /\ SentinelOrValidAnswer) =>
        /\ detector = "ok"
        /\ HighOrCritical
        /\ Count("threat_detector", "eventbridge.put_events") = 1

(* What the code does for the scenario event: its pattern score is 8 (9 at *)
(* off-hours), so it is assessed HIGH or CRITICAL exactly when the         *)
(* classifier's score is at least 4 (3 at off-hours); with the failure     *)
(* sentinel it is MEDIUM.  trigger_incident_response is invoked once when  *)
(* the level is HIGH or CRITICAL and not at all otherwise.                 *)
C13_ScenarioLevel ==
    (ScenarioEvent /\ detector = "ok") =>
        LET a == Get(ai_analysis.risk_score, Num(0)).v
            needed == IF event.eventTime # None /\ OffHours(event.eventTime[1])
                      THEN 3 ELSE 4
        IN /\ HighOrCritical <=> (a >= needed)
           /\ ClassifierFailed => threat_assessment.threat_level = "MEDIUM"
           /\ Count("threat_detector", "eventbridge.put_events")
                 = IF HighOrCritical THEN 1 ELSE 0

C13_SentinelCase ==
    /\ ScenarioEvent /\ detector = "ok"
    /\ ClassifierFailed
    /\ threat_assessment.threat_level = "MEDIUM"
    /\ Count("threat_detector", "eventbridge.put_events") = 0
    /\ Count("threat_detector", "threat_intel.put_item") = 1

----------------------------------------------------------------------------
(* Absent fields *)

Handled == detector # "idle"
HasAnchors == event.exists /\ event.eventName # None /\ event.eventTime # None

(* C17: for an event that has a name and a timestamp, the absence of an    *)
(* optional field (user agent, source address, error code) never makes the *)
(* processing fail: analyze_event returns an assessment.  (Taken where the *)
(* classifier failed or answered within its schema.)                       *)
C17_OptionalFieldsDefaulted ==
    (Handled /\ HasAnchors /\ SentinelOrValidAnswer) =>
        /\ detector = "ok"
        /\ Assessed

\* what does hold: only the absence of the user agent makes it fail
C17_UserAgentIsRequired ==
    (Handled /\ SentinelOrValidAnswer) =>
        (detector = "raised" <=> event.userAgent = None)

(* C18: an event that lacks a name or lacks a timestamp is rejected with   *)
(* an error and has no side effect: no intelligence record is stored, no   *)
(* incident-response event is published, no metric is emitted and no       *)
(* profile is changed.                                                     *)
C18_MalformedRejected ==
    (Handled /\ ~HasAnchors) =>
        /\ detector = "raised"
        /\ Count("threat_detector", "threat_intel.put_item") = 0
        /\ Count("threat_detector", "eventbridge.put_events") = 0
        /\ Count("threat_detector", "cloudwatch.put_metric_data") = 0
        /\ Count("intel_collector", "threat_intel.put_item") = 0
        /\ Count("intel_collector", "attacker_profiles.put_item") = 0

\* what does hold: the detector never looks for the anchors; every event
\* with a user agent is assessed and reported to CloudWatch
C18_AnchorsNotChecked ==
    (Handled /\ event.userAgent # None /\ SentinelOrValidAnswer) =>
        /\ detector = "ok"
        /\ Count("threat_detector", "cloudwatch.put_metric_data") = 1

----------------------------------------------------------------------------
(* Failures of the stores and of the emissions *)

ProfileStoreFailed ==
    \E i \in DOMAIN calls :
        /\ calls[i].by = "intel_collector"
        /\ calls[i].call \in {"attacker_profiles.get_item", "attacker_profiles.put_item"}
        /\ ~calls[i].ok

\* the collector went on to its intelligence write and, when that succeeded,
\* to the deep analysis and its return
CollectionContinued ==
    /\ Count("intel_collector", "threat_intel.put_item") = 1
    /\ CollectorStored =>
          /\ DeepAnalyses = 1
          /\ Count("intel_collector", "collect_intelligence.return") = 1

(* C19: when the profile store fails during an upsert, on the read or on   *)
(* the write, collection is not aborted: it continues to the store and     *)
(* escalation steps, and the profile handed on is a transient profile of   *)
(* the current event (its key, a count, its vectors and tools), not        *)
(* nothing.                                                                *)
C19_TransientProfileOnFailure ==
    ProfileStoreFailed =>
        /\ CollectionContinued
        /\ \A i \in CallsOf("intel_collector", "collect_intelligence.return") :
              LET profile == calls[i].attacker_profile
              IN /\ profile.exists
                 /\ profile.source_ip = event.sourceIPAddress[1]
                 /\ profile.attack_count >= 1
                 /\ Range(calls[i].attack_patterns.attack_vectors)
                       \subseteq profile.attack_vectors.v
                 /\ Range(calls[i].attack_patterns.tools_used)
                       \subseteq profile.tools_used.v

\* what does hold: collection continues, and hands on the empty dict
C19_ContinuesWithNoProfile ==
    ProfileStoreFailed =>
        /\ CollectionContinued
        /\ \A i \in CallsOf("intel_collector", "collect_intelligence.return") :
              calls[i].attacker_profile = EmptyDict

\* the detector makes each call due for the level, whatever became of the
\* calls before it
DetectorAttemptsAll ==
    LET level == threat_assessment.threat_level
    IN /\ Count("threat_detector", "threat_intel.put_item")
            = IF level \in {"MEDIUM", "HIGH", "CRITICAL"} THEN 1 ELSE 0
       /\ Count("threat_detector", "eventbridge.put_events")
            = IF level \in {"HIGH", "CRITICAL"} THEN 1 ELSE 0
       /\ Count("threat_detector", "cloudwatch.put_metric_data") = 1

\* the collector has handled the 'Threat Detected' event of a named event
CollectorRan ==
    /\ Published
    /\ bus.intel_collector = <<>>
    /\ event.eventName # None

(* C20: the emissions for one event are independent: when one downstream   *)
(* action fails (storing intelligence, publishing the incident-response    *)
(* event, triggering deep analysis, emitting metrics), every other action  *)
(* due for the level is still attempted and the event is not aborted.      *)
C20_EmissionsIndependent ==
    detector = "ok" =>
        /\ DetectorAttemptsAll
        /\ CollectorRan =>
              /\ Count("intel_collector", "threat_intel.put_item") = 1
              /\ DeepAnalyses = 1
              /\ Count("intel_collector", "raise") = 0

\* what does hold: the detector's three emissions are independent, and the
\* collector's deep analysis is attempted exactly when its own intelligence
\* write succeeded
C20_DetectorEmissionsIndependent ==
    detector = "ok" =>
        /\ DetectorAttemptsAll
        /\ CollectorRan =>
              /\ Count("intel_collector", "threat_intel.put_item") = 1
              /\ DeepAnalyses = (IF CollectorStored THEN 1 ELSE 0)
              /\ Count("intel_collector", "raise") = (IF CollectorStored THEN 0 ELSE 1)

----------------------------------------------------------------------------
(* The pattern score of the scenario *)

NormalHours == event.eventTime \in {None} \cup {Some(h) : h \in 6..22}

(* C15 as claimed: for the scenario event at a non-off-hours time the      *)
(* pattern score is 5 (sqlmap) + 1 (error) = 6.                            *)
C15_ScenarioScoreAsClaimed ==
    (PatternScored /\ ScenarioEvent /\ NormalHours) =>
        pattern_analysis.risk_score = 6

(* C15, amended: for the scenario event at a non-off-hours time the        *)
(* pattern score is 2 (GetUser is a catalog name) + 5 (sqlmap) + 1 (error) *)
(* = 8, with one tag for each of the three rules.                          *)
C15_ScenarioScore ==
    (PatternScored /\ ScenarioEvent /\ NormalHours) =>
        /\ pattern_analysis.risk_score = 8
        /\ pattern_analysis.confidence = 80
        /\ pattern_analysis.patterns_found =
              << <<"suspicious_api_call:", "Get", "User">>,
                 <<"suspicious_user_agent:", "sqlmap">>,
                 <<"api_error:", "AccessDenied">> >>

C15_Witness ==
    /\ PatternScored /\ ScenarioEvent
    /\ event.eventTime = Some(14)
    /\ pattern_analysis.risk_score = 8

----------------------------------------------------------------------------
(* Attacker profile upserts *)

UpsertDone(u) == upsert[u].pc = "done"
AllUpsertsDone == \A u \in Upserts : UpsertDone(u)
UpsertsOf(ip) == {u \in Upserts : upsert[u].source_ip = ip}
Inputs(u, field) == Range(upsert[u].attack_patterns[field])

(* C7: when N upserts for one key run concurrently, then after all of them *)
(* have completed the stored attackCount is N and the stored vector and    *)
(* tool sets hold every input, whatever the interleaving of the reads and  *)
(* writes.  Stated for runs in which every upsert reached its put_item.    *)
C7_NoLostUpdate ==
    (AllUpsertsDone /\ \A u \in Upserts : ~upsert[u].raised) =>
        \A ip \in SourceIps :
            UpsertsOf(ip) # {} =>
                LET stored == attacker_profiles_table[ip]
                IN /\ stored.exists
                   /\ stored.attack_count = Cardinality(UpsertsOf(ip))
                   /\ \A u \in UpsertsOf(ip) :
                         /\ Inputs(u, "attack_vectors") \subseteq stored.attack_vectors.v
                         /\ Inputs(u, "tools_used") \subseteq stored.tools_used.v

(* C8: an upsert that finds no profile for its key stores one with         *)
(* attackCount = 1, firstSeen = lastSeen = the event's time, vector and    *)
(* tool sets equal to the inputs, and a history holding exactly the level  *)
(* of the current assessment.                                              *)
CreatedFields(u) ==
    LET r == upsert[u].result
    IN /\ r.exists
       /\ upsert[u].stored_after = r
       /\ r.attack_count = 1
       /\ r.first_seen = upsert[u].event_time
       /\ r.last_activity = upsert[u].event_time
       /\ r.attack_vectors.v = Inputs(u, "attack_vectors")
       /\ r.tools_used.v = Inputs(u, "tools_used")

C8_CreateOnFirstSight ==
    \A u \in Upserts :
        (UpsertDone(u) /\ ~upsert[u].response.exists) =>
            /\ CreatedFields(u)
            /\ upsert[u].result.threat_levels = <<upsert[u].threat_level>>

(* C9: an upsert that finds a stored profile stores attackCount + 1, the   *)
(* unions of the stored sets with the inputs, lastSeen = the event's time  *)
(* and the history extended by the level.                                  *)
C9_MergeIntoExisting ==
    \A u \in Upserts :
        (UpsertDone(u) /\ upsert[u].response.exists) =>
            LET old == upsert[u].response
                r   == upsert[u].result
            IN /\ r.exists
               /\ upsert[u].stored_after = r
               /\ r.attack_count = old.attack_count + 1
               /\ r.attack_vectors.v = old.attack_vectors.v \cup Inputs(u, "attack_vectors")
               /\ r.tools_used.v = old.tools_used.v \cup Inputs(u, "tools_used")
               /\ r.last_activity = upsert[u].event_time
               /\ r.threat_levels = Append(old.threat_levels, upsert[u].threat_level)

(* C10: over a sequence of upserts (no two overlapping) the stored         *)
(* attackCount never decreases, the stored sets never lose an element, and *)
(* after each merge the stored sets include the sets stored before it and  *)
(* the incoming sets.                                                      *)
SequentialRun == \A u \in Upserts : upsert[u].pc # "idle" => ~upsert[u].overlapped

C10_MonotoneMerge ==
    SequentialRun =>
        \A u \in Upserts :
            UpsertDone(u) =>
                LET before == upsert[u].stored_before
                    after  == upsert[u].stored_after
                IN /\ after.exists
                   /\ Inputs(u, "attack_vectors") \subseteq after.attack_vectors.v
                   /\ Inputs(u, "tools_used") \subseteq after.tools_used.v
                   /\ before.exists =>
                         /\ before.attack_count <= after.attack_count
                         /\ before.attack_vectors.v \subseteq after.attack_vectors.v
                         /\ before.tools_used.v \subseteq after.tools_used.v

\* what does hold of the code: the fields C8 lists other than the history,
\* and that a sequential run never shrinks what is stored
ProfileSanity ==
    /\ \A u \in Upserts :
          (UpsertDone(u) /\ ~upsert[u].response.exists) => CreatedFields(u)
    /\ SequentialRun =>
          \A u \in Upserts :
             (UpsertDone(u) /\ upsert[u].stored_before.exists) =>
                 /\ upsert[u].stored_after.exists
                 /\ upsert[u].stored_before.attack_count
                       <= upsert[u].stored_after.attack_count
                 /\ upsert[u].stored_before.tools_used.v
                       \subseteq upsert[u].stored_after.tools_used.v

----------------------------------------------------------------------------
(* The honeypot manager invoked on its own, with vectors and tools given   *)
(* as lists in any order and with repetitions.                             *)

SeqsUpTo(S, n) == UNION {[1..k -> S] : k \in 0..n}

HoneypotVectors == {"database", "data_access", "api", "reconnaissance"}
HoneypotTools == {"sqlmap", "nikto", "dirb", "burp", "zap", "nmap"}

HoneypotInputs ==
    {[exists         |-> TRUE,
      attack_vectors |-> JsonList(vs),
      tools_used     |-> JsonList(ts)] :
        vs \in SeqsUpTo(HoneypotVectors, MaxListLen),
        ts \in SeqsUpTo(HoneypotTools, MaxListLen)}

InitHoneypot ==
    /\ event = NoEvent
    /\ detector = "idle"
    /\ calls = <<>>
    /\ \E ap \in HoneypotInputs :
          bus = [EmptyBus EXCEPT !.honeypot_manager =
                    <<[attack_patterns   |-> ap,
                       threat_assessment |-> [threat_level |-> "HIGH"]]>>]
    /\ pattern_analysis = NoResult
    /\ ai_analysis = NoResult
    /\ threat_assessment = NoResult
    /\ attacker_profiles_table = [ip \in SourceIps |-> EmptyDict]
    /\ upsert = <<>>

NextHoneypot == HoneypotManagerHandler

SpecHoneypot == InitHoneypot /\ [][NextHoneypot]_vars

\* the selection the policy prescribes for a set of vectors and a set of tools
PolicyFor(vectors, tools) ==
    (IF tools \cap {"sqlmap", "nikto", "dirb"} # {} THEN {"web_server"} ELSE {})
    \cup (IF "sqlmap" \in tools \/ "database" \in vectors THEN {"database"} ELSE {})
    \cup (IF "data_access" \in vectors THEN {"file_server"} ELSE {})
    \cup (IF "api" \in vectors \/ tools \cap {"burp", "zap"} # {} THEN {"api_endpoint"}
          ELSE {})

(* C21: the honeypot selection depends only on which elements the vectors  *)
(* and tools lists contain, not on their order or repetitions, and is:     *)
(* web_server iff tools has sqlmap, nikto or dirb; database iff tools has  *)
(* sqlmap or vectors has database; file_server iff vectors has             *)
(* data_access; api_endpoint iff vectors has api or tools has burp or zap; *)
(* each type at most once.                                                 *)
C21_SelectionByMembership ==
    \A i \in CallsOf("honeypot_manager", "adapt_honeypots") :
        LET ap    == calls[i].attack_patterns
            types == calls[i].honeypot_types
        IN ap.exists =>
            /\ Range(types) = PolicyFor(Elements(ap.attack_vectors),
                                        Elements(ap.tools_used))
            /\ Len(types) = Cardinality(Range(types))

\* sqlmap given twice, after nikto: web_server and database, once each
C21_Witness ==
    \E i \in CallsOf("honeypot_manager", "adapt_honeypots") :
        /\ calls[i].attack_patterns.tools_used = JsonList(<<"sqlmap", "sqlmap">>)
        /\ calls[i].attack_patterns.attack_vectors = JsonList(<<"api", "data_access">>)
        /\ calls[i].honeypot_types
              = <<"web_server", "database", "file_server", "api_endpoint">>

----------------------------------------------------------------------------
(* Categories and confidence of the assessment *)

SemanticCategories ==
    IF ai_analysis.threat_categories = <<>> THEN {}
    ELSE ai_analysis.threat_categories[1].v

TagsWith(word) ==
    {i \in DOMAIN pattern_analysis.patterns_found :
        Contains(pattern_analysis.patterns_found[i], word)}

(* C22: the category set is the semantic categories united with the        *)
(* pattern-implied ones: brute_force whenever some matched tag contains    *)
(* 'brute_force', reconnaissance whenever some matched tag contains        *)
(* 'reconnaissance', each decided independently of the other.              *)
C22_CategoriesAreUnion ==
    Assessed =>
        threat_assessment.categories =
            SemanticCategories
            \cup (IF TagsWith("brute_force") # {} THEN {"brute_force"} ELSE {})
            \cup (IF TagsWith("reconnaissance") # {} THEN {"reconnaissance"} ELSE {})

\* what does hold: a tag implies reconnaissance only if it does not also
\* contain 'brute_force'; and the set can be empty at CRITICAL
C22_FirstMatchPerTag ==
    Assessed =>
        threat_assessment.categories =
            SemanticCategories
            \cup (IF TagsWith("brute_force") # {} THEN {"brute_force"} ELSE {})
            \cup (IF TagsWith("reconnaissance") \ TagsWith("brute_force") # {}
                  THEN {"reconnaissance"} ELSE {})

C22_EmptyAtCritical ==
    /\ Assessed
    /\ threat_assessment.threat_level = "CRITICAL"
    /\ threat_assessment.categories = {}

SemanticConfidence == Get(ai_analysis.confidence, Num(0)).v

(* C23: the assessment's confidence is max(patternConfidence,              *)
(* semanticConfidence): with the failure sentinel it is the pattern        *)
(* confidence, and it lies in [0,100] when both inputs do.                 *)
C23_ConfidenceIsMax ==
    Assessed =>
        LET c == threat_assessment.confidence
            p == pattern_analysis.confidence
            a == SemanticConfidence
        IN /\ c >= p /\ c >= a
           /\ c \in {p, a}
           /\ ai_analysis = AiFailureSentinel => c = p
           /\ (p \in 0..100 /\ a \in 0..100) => c \in 0..100

\* the pattern confidence wins over a lower semantic one
C23_Witness ==
    /\ Assessed
    /\ pattern_analysis.confidence = 85
    /\ ai_analysis.confidence = Some(Num(40))
    /\ threat_assessment.confidence = 85

----------------------------------------------------------------------------
(* Order of the matched-rule tags *)

\* the place of a tag in the evaluation order of the rules
RuleRank(tag) ==
    LET catalog == <<"nmap", "sqlmap", "nikto", "dirb", "gobuster", "hydra",
                     "metasploit", "burp", "zap", "w3af">>
    IN CASE tag[1] = "suspicious_api_call:" -> 0
         [] tag[1] = "suspicious_user_agent:" ->
                CHOOSE k \in DOMAIN catalog : catalog[k] = tag[2]
         [] tag[1] = "api_error:" -> 11
         [] tag[1] = "off_hours_activity" -> 12

(* C24: the matched-rule tags are in evaluation order: the                 *)
(* suspicious_api_call tag, then the suspicious_user_agent tags in catalog *)
(* order, then the api_error tag, then off_hours_activity; each rule gives *)
(* at most one tag; scoring the same event again gives the same list.      *)
C24_TagsInEvaluationOrder ==
    PatternScored =>
        LET tags == pattern_analysis.patterns_found
        IN /\ \A i, j \in DOMAIN tags :
                 i < j => RuleRank(tags[i]) < RuleRank(tags[j])
           /\ tags = _pattern_analysis(_extract_event_details(event)).patterns_found

C24_Witness ==
    /\ PatternScored
    /\ pattern_analysis.patterns_found =
          << <<"suspicious_api_call:", "Get", "User">>,
             <<"suspicious_user_agent:", "nmap">>,
             <<"suspicious_user_agent:", "sqlmap">>,
             <<"api_error:", "AccessDenied">>,
             <<"off_hours_activity">> >>

----------------------------------------------------------------------------
(* Metrics, expiry of the records, order of the detector's steps *)

MetricsOf(name) ==
    {<<i, k>> \in (DOMAIN calls) \X (1..2) :
        /\ calls[i].call = "cloudwatch.put_metric_data"
        /\ k \in DOMAIN calls[i].metrics
        /\ calls[i].metrics[k].MetricName = name}

(* C25: for every event processed to completion, at whatever level, the    *)
(* ThreatsDetected counter and the RiskScore gauge are each emitted        *)
(* exactly once, both labelled with the assessed level.                    *)
C25_MetricsOncePerEvent ==
    detector = "ok" =>
        /\ Count("threat_detector", "cloudwatch.put_metric_data") = 1
        /\ \A name \in {"ThreatsDetected", "RiskScore"} :
              /\ Cardinality(MetricsOf(name)) = 1
              /\ \A m \in MetricsOf(name) :
                    calls[m[1]].metrics[m[2]].ThreatLevel
                        = threat_assessment.threat_level

C25_Witness ==
    /\ detector = "ok"
    /\ threat_assessment.threat_level = "INFO"
    /\ Quiescent
    /\ \E m \in MetricsOf("RiskScore") :
          calls[m[1]].metrics[m[2]].ThreatLevel = "INFO"

IntelligenceWrites == {i \in DOMAIN calls : calls[i].call = "threat_intel.put_item"}

(* C26: every intelligence record handed to the store, by whichever        *)
(* component writes it, carries an expiry of its write time plus 90 days.  *)
C26_ExpiryNinetyDays ==
    \A i \in IntelligenceWrites : calls[i].ttl_days = 90

\* what does hold: 90 days for the collector's records, 30 for the detector's
C26_ExpiryByWriter ==
    \A i \in IntelligenceWrites :
        calls[i].ttl_days = IF calls[i].by = "intel_collector" THEN 90 ELSE 30

----------------------------------------------------------------------------
(* What the collector can hand to the honeypot manager *)

CollectorVectors == {"reconnaissance", "data_access", "resource_creation"}
CollectorTools == {"nmap", "sqlmap", "metasploit"}

AsHoneypotInput(attack_patterns) ==
    [exists         |-> TRUE,
     attack_vectors |-> JsonList(attack_patterns.attack_vectors),
     tools_used     |-> JsonList(attack_patterns.tools_used)]

NoApiAndWebWithDatabase(types) ==
    /\ "api_endpoint" \notin Range(types)
    /\ ("web_server" \in Range(types)) <=> ("database" \in Range(types))

(* C27: the attack patterns _analyze_attack_patterns produces, and every   *)
(* profile merged from them, have vectors within {reconnaissance,          *)
(* data_access, resource_creation} and tools within {nmap, sqlmap,         *)
(* metasploit}; so the honeypot selection applied to them never contains   *)
(* api_endpoint and contains web_server exactly when it contains database. *)
C27_CollectorVocabulary ==
    \A i \in CallsOf("intel_collector", "collect_intelligence.return") :
        LET ap      == calls[i].attack_patterns
            profile == calls[i].attacker_profile
        IN /\ Range(ap.attack_vectors) \subseteq CollectorVectors
           /\ Range(ap.tools_used) \subseteq CollectorTools
           /\ NoApiAndWebWithDatabase(_determine_honeypot_types(AsHoneypotInput(ap)))
           /\ profile.exists =>
                 /\ profile.attack_vectors.v \subseteq CollectorVectors
                 /\ profile.tools_used.v \subseteq CollectorTools
                 /\ NoApiAndWebWithDatabase(_determine_honeypot_types(profile))

\* sqlmap seen by the collector: web_server and database together
C27_Witness ==
    \E i \in CallsOf("intel_collector", "collect_intelligence.return") :
        /\ calls[i].attacker_profile.exists
        /\ calls[i].attacker_profile.tools_used.v = {"sqlmap"}
        /\ _determine_honeypot_types(calls[i].attacker_profile)
              = <<"web_server", "database", "file_server">>

----------------------------------------------------------------------------
(* The collector's profile write and its intelligence write *)

IntelligenceStoreFailed ==
    \E i \in CallsOf("intel_collector", "threat_intel.put_item") : ~calls[i].ok

ProfileWritten == Succeeded("intel_collector", "attacker_profiles.put_item")

\* the table's item of the event's source is the one updated for this event
ProfileOfEventStored ==
    /\ event.sourceIPAddress # None
    /\ LET item == attacker_profiles_table[event.sourceIPAddress[1]]
       IN /\ item.exists
          /\ item.attack_count >= 1
          /\ item.last_activity = event.eventTime
          /\ item = UpdatedProfile(
                       ProfileFromResponse(EmptyDict, event.sourceIPAddress[1],
                                           event.eventTime),
                       _analyze_attack_patterns(_extract_event_details(event)),
                       event.eventTime)

(* C28: collect_intelligence updates the profile before it stores the      *)
(* intelligence record and does not roll the update back: when the store   *)
(* fails, collect_intelligence raises, a profile change already written    *)
(* stays in the table with its attack_count incremented for this event,    *)
(* and deep analysis is not triggered.                                     *)
C28_ProfileKeptWhenStoreFails ==
    \A i \in CallsOf("intel_collector", "threat_intel.put_item") :
        /\ \A j \in CallsOf("intel_collector", "attacker_profiles.get_item")
                    \cup CallsOf("intel_collector", "attacker_profiles.put_item") :
              j < i
        /\ ~calls[i].ok =>
              /\ i < Len(calls)
              /\ calls[i + 1] = Call("intel_collector", "raise", FALSE)
              /\ Count("intel_collector", "collect_intelligence.return") = 0
              /\ DeepAnalyses = 0
              /\ Adaptations = 0
              /\ ProfileWritten => ProfileOfEventStored

\* a HIGH or CRITICAL event whose profile was written and whose record was not
C28_Witness ==
    /\ IntelligenceStoreFailed
    /\ ProfileWritten
    /\ ProfileOfEventStored
    /\ threat_assessment.threat_level \in {"HIGH", "CRITICAL"}
    /\ Quiescent

----------------------------------------------------------------------------
(* The incident response Lambda on its own: any 'Threat Detected' detail    *)
(* can be delivered to it, with or without a threat_level and with or      *)
(* without a source address.                                               *)

MaxMessages == 2

ResponseAssessments ==
    {EmptyDict}
    \cup [threat_level : {"INFO", "LOW", "MEDIUM", "HIGH", "CRITICAL"}]

ResponseEvents == [sourceIPAddress : {None, Some(""), Some("203.0.113.25")}]

ResponseMessages ==
    [original_event : ResponseEvents, threat_assessment : ResponseAssessments]

InitResponse ==
    /\ event = NoEvent
    /\ detector = "idle"
    /\ calls = <<>>
    /\ \E msgs \in SeqsUpTo(ResponseMessages, MaxMessages) :
          /\ msgs # <<>>
          /\ bus = [EmptyBus EXCEPT !.incident_response = msgs]
    /\ pattern_analysis = NoResult
    /\ ai_analysis = NoResult
    /\ threat_assessment = NoResult
    /\ attacker_profiles_table = [ip \in SourceIps |-> EmptyDict]
    /\ upsert = <<>>

NextResponse == IncidentResponseHandler

SpecResponse == InitResponse /\ [][NextResponse]_vars

Responses == CallsOf("incident_response", "execute_response")

\* the level execute_response is given, LOW when there is none
GivenLevel(c) ==
    IF c.threat_assessment = EmptyDict THEN "LOW"
    ELSE c.threat_assessment.threat_level

HasSourceAddress(c) ==
    /\ c.original_event.sourceIPAddress # None
    /\ c.original_event.sourceIPAddress # Some("")

(* C29: execute_response records alert_sent as the last entry of           *)
(* actions_taken for every threat level, a missing level being treated as  *)
(* LOW; waf_ip_block and security_group_deny are recorded only when the    *)
(* level is HIGH or CRITICAL and the event has a non-empty source address, *)
(* always both together and in that order.                                 *)
C29_ActionsTaken ==
    \A i \in Responses :
        LET c     == calls[i]
            taken == c.actions_taken
        IN /\ c.response_type = GivenLevel(c)
           /\ taken # <<>>
           /\ taken[Len(taken)] = "alert_sent"
           /\ \A k \in 1..(Len(taken) - 1) : taken[k] # "alert_sent"
           /\ IF GivenLevel(c) \in {"HIGH", "CRITICAL"} /\ HasSourceAddress(c)
                THEN taken = <<"waf_ip_block", "security_group_deny", "alert_sent">>
                ELSE taken = <<"alert_sent">>

\* one response that blocks, one without a level, one HIGH without an address
C29_Witness ==
    /\ \E i \in Responses :
          /\ calls[i].response_type = "CRITICAL"
          /\ Len(calls[i].actions_taken) = 3
    /\ \E i \in Responses :
          /\ calls[i].threat_assessment = EmptyDict
          /\ HasSourceAddress(calls[i])
          /\ calls[i].actions_taken = <<"alert_sent">>

\* a HIGH response for an event without a source address only alerts
C29_WitnessNoAddress ==
    \E i \in Responses :
        /\ calls[i].response_type = "HIGH"
        /\ ~HasSourceAddress(calls[i])
        /\ calls[i].actions_taken = <<"alert_sent">>

----------------------------------------------------------------------------
(* The order of the detector's outbound steps *)

DetectorStores == CallsOf("threat_detector", "threat_intel.put_item")
DetectorTriggers == CallsOf("threat_detector", "eventbridge.put_events")
DetectorMetrics == CallsOf("threat_detector", "cloudwatch.put_metric_data")
DetectorClassifies == CallsOf("threat_detector", "bedrock.invoke_model")

DetectorOutbound == DetectorStores \cup DetectorTriggers \cup DetectorMetrics

(* C30: within one threat-detector invocation the outbound steps occur in  *)
(* the order store intelligence, trigger incident response, send metrics;  *)
(* whenever incident response is triggered the intelligence store was      *)
(* attempted earlier in the same invocation, and none of the three happens *)
(* before the assessment is complete.                                      *)
C30_OutboundOrder ==
    /\ \A i \in DetectorStores : \A j \in DetectorTriggers : i < j
    /\ \A i \in DetectorStores \cup DetectorTriggers : \A j \in DetectorMetrics : i < j
    /\ \A j \in DetectorTriggers : \E i \in DetectorStores : i < j
    /\ DetectorOutbound # {} =>
          /\ detector = "ok"
          /\ threat_assessment # NoResult
          /\ threat_assessment = _assess_threat_level(pattern_analysis, ai_analysis)
          /\ DetectorClassifies # {}
          /\ \A c \in DetectorClassifies : \A k \in DetectorOutbound : c < k
    /\ detector \in {"idle", "raised"} => DetectorOutbound = {}

\* an invocation that made all three outbound steps
C30_Witness ==
    /\ DetectorStores # {}
    /\ DetectorTriggers # {}
    /\ DetectorMetrics # {}
    /\ \E i \in DetectorStores : ~calls[i].ok

====
